---- MODULE Spec2Model ----
(***************************************************************************)
(* Startup-pitch site: the createPitch server action (src/lib/action.ts),  *)
(* the startup detail page (src/app/(root)/startup/[id]/page.tsx) and the  *)
(* View counter widget (src/unnamed/part_003, components/View).            *)
(*                                                                         *)
(* JavaScript objects are records.  A key whose value is `undefined` is    *)
(* modelled as an absent key: every consumer of these objects in the code  *)
(* (the CMS request body, parseServerActionResponse) goes through JSON,    *)
(* which drops such keys.  Strings that the code inspects character by     *)
(* character (the title, for slugify) are sequences of one-character       *)
(* strings.                                                                *)
(***************************************************************************)
EXTENDS Integers, Sequences, FiniteSets, TLC

VARIABLES
    \* ---- createPitch (src/lib/action.ts) ----
    pcAction,     \* position of the running createPitch call
    session,      \* what auth() resolves to for the call
    form,         \* the FormData argument, a record keyed by field name
    pitch,        \* the pitch argument
    pending,      \* the document handed to writeClient.create, in flight
    result,       \* what the call returned (or the error it threw)
    documents,    \* the CMS store: created startup documents, in order
    creates,      \* writeClient.create invocations made by the current call
    docsAtCall,   \* Len(documents) when the current call began
    \* ---- detail page and View widget ----
    views,        \* stored views field of the existing startup
    initial,      \* the stored count before any request ran
    playlist,     \* what the editor-picks query resolves to
    pc,           \* position of each detail-page request
    routeId,      \* the id route parameter of each request
    postRead,     \* each request's entity-by-id read: pending or its value
    picksRead,    \* each request's editor-picks read: pending or its value
    totalViews,   \* the count each request's View widget observed
    text,         \* the text each request's View widget rendered
    scheduled,    \* after() callbacks each request has registered
    patch,        \* fate of each request's deferred patch
    \* ---- StartupForm (src/unnamed/part_002) ----
    pcForm,       \* position of handleFormSubmit
    formData,     \* the FormData of the latest submission
    editorPitch,  \* the pitch state of the markdown editor at that submission
    errors,       \* the errors state: field name to messages
    toast,        \* the toast shown by the latest submission
    formState,    \* the useActionState state: what the handler last returned
    pushed        \* the _id router.push was last given

pitchVars == <<pcAction, session, form, pitch, pending, result, documents,
               creates, docsAtCall>>

viewVars == <<views, initial, playlist, pc, routeId, postRead, picksRead,
              totalViews, text, scheduled, patch>>

formVars == <<pcForm, formData, editorPitch, errors, toast, formState, pushed>>

vars == <<pitchVars, viewVars, formVars>>

---------------------------------------------------------------------------
(* Bounds *)

MaxTitleLen == 3
MaxDocs == 1
NumReq == 3
MaxInitial == 1

---------------------------------------------------------------------------
(* Inputs of createPitch *)

\* one letter, whitespace, the separator, and a character strict mode removes
TitleChars == {"A", " ", "-", "!"}

RECURSIVE SeqsUpTo(_, _)
SeqsUpTo(S, n) ==
    IF n = 0 THEN {<<>>}
    ELSE LET shorter == SeqsUpTo(S, n - 1)
         IN  shorter \cup {Append(s, c) : s \in {t \in shorter : Len(t) = n - 1}, c \in S}

Titles == SeqsUpTo(TitleChars, MaxTitleLen)
Descriptions == {"", "a description"}
Categories == {"", "tech"}
Links == {"", "not a url", "https://x.io/a.png"}
Pitches == {"", "short", "a long enough pitch"}

NoSession == [signedIn |-> FALSE]
Sessions == {[id |-> "u1"], [id |-> "u2"]}

\* FormData objects, as records keyed by field name: every title with the
\* other fields well-formed; every combination of the other fields with an
\* empty or a one-letter title; forms without a title entry; a form carrying
\* its own "pitch" entry.
FormsAllTitles ==
    {[title |-> t, description |-> "a description", category |-> "tech",
      link |-> "https://x.io/a.png"] : t \in Titles}
FormsAllFields ==
    {[title |-> t, description |-> d, category |-> c, link |-> l] :
        t \in {<<>>, <<"A">>}, d \in Descriptions, c \in Categories, l \in Links}
FormsNoTitle ==
    {[description |-> "a description", category |-> "tech", link |-> l] : l \in Links}
FormsWithPitch ==
    {[title |-> <<"A">>, description |-> "a description", category |-> "tech",
      link |-> "https://x.io/a.png", pitch |-> "form pitch entry"]}
Forms == FormsAllTitles \cup FormsAllFields \cup FormsNoTitle \cup FormsWithPitch

\* the (session, form, pitch) triples a caller may submit
Submissions ==
    {<<s, f, p>> : s \in Sessions \cup {NoSession},
                   f \in FormsAllFields \cup FormsNoTitle \cup FormsWithPitch,
                   p \in Pitches}
    \cup {<<[id |-> "u1"], f, "a long enough pitch">> : f \in FormsAllTitles}

---------------------------------------------------------------------------
(* slugify(title, { lower: true, strict: true })                           *)

IsAlnum(c) == c \in {"A", "a"}
IsSpace(c) == c = " "

\* the replacement character is mapped to a space before anything else
ReplacementToSpace(c) == IF c = "-" THEN " " ELSE c

\* strict: slug.replace(/[^A-Za-z0-9\s]/g, '')
StrictKeep(c) == IsAlnum(c) \/ IsSpace(c)

\* toLowerCase when the lower option is not applied
toLowerCaseSkipped(c) == c

toLowerCase(c) == IF c = "A" THEN "a" ELSE c

RECURSIVE Filter(_, _)
Filter(s, i) ==
    IF i > Len(s) THEN <<>>
    ELSE LET c == ReplacementToSpace(s[i])
         IN  (IF StrictKeep(c) THEN <<c>> ELSE <<>>) \o Filter(s, i + 1)

RECURSIVE TrimLeft(_)
TrimLeft(s) == IF s # <<>> /\ IsSpace(Head(s)) THEN TrimLeft(Tail(s)) ELSE s

RECURSIVE TrimRight(_)
TrimRight(s) ==
    IF s # <<>> /\ IsSpace(s[Len(s)]) THEN TrimRight(SubSeq(s, 1, Len(s) - 1)) ELSE s

\* slug.replace(/\s+/g, '-'): every run of spaces becomes one separator
RECURSIVE CollapseSpaces(_, _)
CollapseSpaces(s, i) ==
    IF i > Len(s) THEN <<>>
    ELSE IF IsSpace(s[i])
         THEN (IF i > 1 /\ IsSpace(s[i - 1]) THEN <<>> ELSE <<"-">>) \o CollapseSpaces(s, i + 1)
         ELSE <<s[i]>> \o CollapseSpaces(s, i + 1)

slugify(title) ==
    LET stripped == Filter(title, 1)
        trimmed == TrimRight(TrimLeft(stripped))
        joined == CollapseSpaces(trimmed, 1)
    IN  [i \in 1..Len(joined) |-> toLowerCase(joined[i])]

---------------------------------------------------------------------------
(* createPitch                                                             *)

\* parseServerActionResponse: JSON.parse(JSON.stringify(response)).  On the
\* records of this model (strings, sequences, nested records, no undefined
\* keys) the round trip returns an equal value.
parseServerActionResponse(response) == response

\* JSON.stringify(error): an Error has no enumerable own properties; the CMS
\* client's error carries its status code.
Errors == {[name |-> "Error"], [name |-> "ClientError", statusCode |-> 403]}
JSONstringify(error) ==
    IF "statusCode" \in DOMAIN error THEN "{\"statusCode\":403}" ELSE "{}"

\* Object.fromEntries(Array.from(form).filter(([key]) => key !== "pitch"))
ExtractFields(f) == [k \in DOMAIN f \ {"pitch"} |-> f[k]]

\* the startup object of lines 48-62, spread after _type: "startup";
\* session?.id of a session without id is undefined, so _ref is absent
BuildStartup(fields, slug, sess, p) ==
    LET keys == {"_type", "title", "slug", "author", "pitch"}
                \cup ({"description", "category"} \cap DOMAIN fields)
                \cup (IF "link" \in DOMAIN fields THEN {"image"} ELSE {})
    IN  [k \in keys |->
            CASE k = "_type" -> "startup"
              [] k = "title" -> fields.title
              [] k = "description" -> fields.description
              [] k = "category" -> fields.category
              [] k = "image" -> fields.link
              [] k = "slug" -> [_type |-> slug, current |-> slug]
              [] k = "author" -> IF "id" \in DOMAIN sess
                                 THEN [_type |-> "reference", _ref |-> sess.id]
                                 ELSE [_type |-> "reference"]
              [] k = "pitch" -> p]

NoResult == [status |-> "NONE"]
NoDoc == [_type |-> "none"]

InitPitch ==
    /\ pcAction = "idle"
    /\ session = NoSession
    /\ form = [title |-> <<>>]
    /\ pitch = ""
    /\ pending = NoDoc
    /\ result = NoResult
    /\ documents = <<>>
    /\ creates = 0
    /\ docsAtCall = 0

\* a caller invokes createPitch(state, form, pitch); the call awaits auth()
CallCreatePitch(s, f, p) ==
    /\ pcAction = "idle"
    /\ Len(documents) < MaxDocs
    /\ pcAction' = "auth"
    /\ session' = s
    /\ form' = f
    /\ pitch' = p
    /\ pending' = NoDoc
    /\ result' = NoResult
    /\ creates' = 0
    /\ docsAtCall' = Len(documents)
    /\ UNCHANGED documents

\* auth() resolved to no session: lines 32-36
ReturnNotSignedIn ==
    /\ pcAction = "auth"
    /\ session = NoSession
    /\ result' = parseServerActionResponse([error |-> "Not signed in", status |-> "ERROR"])
    /\ pcAction' = "returned"
    /\ UNCHANGED <<session, form, pitch, pending, documents, creates, docsAtCall>>

\* lines 39-44 run outside the try block: slugify throws on a non-string
SlugifyThrows ==
    /\ pcAction = "auth"
    /\ session # NoSession
    /\ "title" \notin DOMAIN ExtractFields(form)
    /\ result' = [thrown |-> "slugify: string argument expected"]
    /\ pcAction' = "thrown"
    /\ UNCHANGED <<session, form, pitch, pending, documents, creates, docsAtCall>>

\* IssueCreate without the session check of line 32
IssueCreateUnchecked ==
    /\ pcAction = "auth"
    /\ "title" \in DOMAIN ExtractFields(form)
    /\ LET fields == ExtractFields(form)
           slug == slugify(fields.title)
       IN  pending' = BuildStartup(fields, slug, session, pitch)
    /\ creates' = creates + 1
    /\ pcAction' = "create"
    /\ UNCHANGED <<session, form, pitch, result, documents, docsAtCall>>

\* lines 39-65: fields extracted, slug derived, startup built, create issued
IssueCreate ==
    /\ pcAction = "auth"
    /\ session # NoSession
    /\ "title" \in DOMAIN ExtractFields(form)
    /\ LET fields == ExtractFields(form)
           slug == slugify(fields.title)
       IN  pending' = BuildStartup(fields, slug, session, pitch)
    /\ creates' = creates + 1
    /\ pcAction' = "create"
    /\ UNCHANGED <<session, form, pitch, result, documents, docsAtCall>>

\* writeClient.create resolved: the store holds the document, lines 68-72
CreateResolves ==
    /\ pcAction = "create"
    /\ LET created == [k \in DOMAIN pending \cup {"_id"} |->
                          IF k = "_id" THEN Len(documents) + 1 ELSE pending[k]]
       IN  /\ documents' = Append(documents, created)
           /\ result' = parseServerActionResponse(
                  [k \in DOMAIN created \cup {"error", "status"} |->
                      CASE k = "error" -> ""
                        [] k = "status" -> "SUCCESS"
                        [] OTHER -> created[k]])
    /\ pcAction' = "returned"
    /\ UNCHANGED <<session, form, pitch, pending, creates, docsAtCall>>

\* CreateRejects with a catch block that issues the create again
CreateRejectsRetry(error) ==
    /\ pcAction = "create"
    /\ creates < 3
    /\ creates' = creates + 1
    /\ UNCHANGED <<pcAction, session, form, pitch, pending, result, documents, docsAtCall>>

\* writeClient.create rejected: the catch block, lines 73-81
CreateRejects(error) ==
    /\ pcAction = "create"
    /\ result' = parseServerActionResponse(
           [error |-> JSONstringify(error), status |-> "ERROR"])
    /\ pcAction' = "returned"
    /\ UNCHANGED <<session, form, pitch, pending, documents, creates, docsAtCall>>

\* the caller has taken the result (or the exception) and the call's locals
\* are gone; the next call may start
CallerContinues ==
    /\ pcAction \in {"returned", "thrown"}
    /\ pcAction' = "idle"
    /\ session' = NoSession
    /\ form' = [title |-> <<>>]
    /\ pitch' = ""
    /\ pending' = NoDoc
    /\ result' = NoResult
    /\ creates' = 0
    /\ docsAtCall' = 0
    /\ UNCHANGED documents

NextPitch ==
    UNCHANGED <<viewVars, formVars>> /\
  (
    \/ \E sub \in Submissions : CallCreatePitch(sub[1], sub[2], sub[3])
    \/ ReturnNotSignedIn
    \/ SlugifyThrows
    \/ IssueCreate
    \/ CreateResolves
    \/ \E e \in Errors : CreateRejects(e)
    \/ CallerContinues
  )


---------------------------------------------------------------------------
(* formSchema (lib/validation): title, description, category, link and     *)
(* pitch are required non-empty strings, link is a URL, pitch has a        *)
(* minimum length                                                          *)

MinPitchLen == 10

IsUrl(l) == l \in {"https://x.io/a.png"}

SchemaAccepts(f, p) ==
    /\ {"title", "description", "category", "link"} \subseteq DOMAIN f
    /\ Len(f.title) >= 1
    /\ f.description # ""
    /\ f.category # ""
    /\ IsUrl(f.link)
    /\ Len(p) >= MinPitchLen

---------------------------------------------------------------------------
(* StartupForm: handleFormSubmit                                           *)

\* what the rendered form can submit: its four named inputs are always
\* present; the session is the browser's, the pitch is the editor's state
FormSubmissions ==
    {<<s, f, p>> : s \in Sessions \cup {NoSession}, f \in FormsAllFields, p \in Pitches}

\* error.flatten().fieldErrors of the ZodError: the fields the schema
\* rejected, each with its messages
FieldErrors(f, p) ==
    LET bad == {k \in {"title", "description", "category", "link", "pitch"} :
                   CASE k = "title" -> Len(f.title) < 1
                     [] k = "description" -> f.description = ""
                     [] k = "category" -> f.category = ""
                     [] k = "link" -> ~IsUrl(f.link)
                     [] k = "pitch" -> Len(p) < MinPitchLen}
    IN  [k \in bad |-> <<"Invalid " \o k>>]

NoErrors == <<>>
InitialState == [error |-> "", status |-> "INITIAL"]

ToastSuccess == [title |-> "Success"]
ToastCheckInputs == [title |-> "Error", description |-> "Please check your inputs and try again"]
ToastUnexpected == [title |-> "Error", description |-> "An unexpected error has occurred"]
NoToast == [title |-> "none"]

\* { ...prevState, error, status }
WithError(prevState, message) ==
    [k \in DOMAIN prevState \cup {"error", "status"} |->
        CASE k = "error" -> message
          [] k = "status" -> "ERROR"
          [] OTHER -> prevState[k]]

InitForm ==
    /\ pcForm = "idle"
    /\ formData = [title |-> <<>>]
    /\ editorPitch = ""
    /\ errors = NoErrors
    /\ toast = NoToast
    /\ formState = InitialState
    /\ pushed = 0

\* SubmitRejected when the outcome of the validation is not waited for:
\* the errors are set and createPitch is called all the same
SubmitRejectedStillCalls(s, f, p) ==
    /\ pcForm = "idle"
    /\ ~SchemaAccepts(f, p)
    /\ formData' = f
    /\ editorPitch' = p
    /\ errors' = FieldErrors(f, p)
    /\ toast' = ToastCheckInputs
    /\ formState' = WithError(formState, "Validation failed")
    /\ pcForm' = "awaiting"
    /\ CallCreatePitch(s, f, p)
    /\ UNCHANGED pushed

\* lines 50-61 and 78-94: the schema rejects the values; the ZodError branch
\* sets errors, shows a toast and returns; createPitch is not reached
SubmitRejected(s, f, p) ==
    /\ pcForm = "idle"
    /\ pcAction = "idle"
    /\ ~SchemaAccepts(f, p)
    /\ formData' = f
    /\ editorPitch' = p
    /\ errors' = FieldErrors(f, p)
    /\ toast' = ToastCheckInputs
    /\ formState' = WithError(formState, "Validation failed")
    /\ UNCHANGED <<pcForm, pushed>>
    /\ UNCHANGED pitchVars

\* lines 50-64: the schema accepts the values and createPitch is called
SubmitAccepted(s, f, p) ==
    /\ pcForm = "idle"
    /\ SchemaAccepts(f, p)
    /\ formData' = f
    /\ editorPitch' = p
    /\ toast' = NoToast
    /\ pcForm' = "awaiting"
    /\ CallCreatePitch(s, f, p)
    /\ UNCHANGED <<errors, formState, pushed>>

\* the call of the server action itself fails (the request is lost, auth()
\* rejects): the await of line 64 throws
ActionCallFails ==
    /\ pcForm = "awaiting"
    /\ pcAction = "auth"
    /\ result' = [thrown |-> "fetch failed"]
    /\ pcAction' = "thrown"
    /\ UNCHANGED <<session, form, pitch, pending, documents, creates, docsAtCall>>
    /\ UNCHANGED formVars

\* the createPitch call is over and its locals are gone
ActionCallOver ==
    /\ pcAction' = "idle"
    /\ session' = NoSession
    /\ form' = [title |-> <<>>]
    /\ pitch' = ""
    /\ pending' = NoDoc
    /\ result' = NoResult
    /\ creates' = 0
    /\ docsAtCall' = 0
    /\ UNCHANGED documents

\* ReceivesResult with setErrors({}) on a result
ReceivesResultClearingErrors ==
    /\ pcForm = "awaiting"
    /\ pcAction = "returned"
    /\ IF result.status = "SUCCESS"
       THEN toast' = ToastSuccess /\ pushed' = result._id
       ELSE UNCHANGED <<toast, pushed>>
    /\ formState' = result
    /\ errors' = NoErrors
    /\ pcForm' = "idle"
    /\ ActionCallOver
    /\ UNCHANGED <<formData, editorPitch>>

\* lines 64-77: createPitch returned; on SUCCESS a toast is shown and the
\* router is pushed to the new startup; the result is returned as it is
ReceivesResult ==
    /\ pcForm = "awaiting"
    /\ pcAction = "returned"
    /\ IF result.status = "SUCCESS"
       THEN toast' = ToastSuccess /\ pushed' = result._id
       ELSE UNCHANGED <<toast, pushed>>
    /\ formState' = result
    /\ pcForm' = "idle"
    /\ ActionCallOver
    /\ UNCHANGED <<formData, editorPitch, errors>>

\* lines 78-107: the call threw something that is not a ZodError
CatchesUnexpected ==
    /\ pcForm = "awaiting"
    /\ pcAction = "thrown"
    /\ toast' = ToastUnexpected
    /\ formState' = WithError(formState, "An unexpected error has occurred")
    /\ pcForm' = "idle"
    /\ ActionCallOver
    /\ UNCHANGED <<formData, editorPitch, errors, pushed>>

NextForm ==
    UNCHANGED viewVars /\
  (
    \/ \E sub \in FormSubmissions : SubmitRejected(sub[1], sub[2], sub[3])
    \/ \E sub \in FormSubmissions : SubmitAccepted(sub[1], sub[2], sub[3])
    \/ ActionCallFails
    \/ ReturnNotSignedIn /\ UNCHANGED formVars
    \/ IssueCreate /\ UNCHANGED formVars
    \/ CreateResolves /\ UNCHANGED formVars
    \/ (\E e \in Errors : CreateRejects(e)) /\ UNCHANGED formVars
    \/ ReceivesResult
    \/ CatchesUnexpected
  )

\* C13: a submission the schema rejects sets errors to the field-to-message
\* mapping of the rejected fields, leaves createPitch uncalled and the store
\* untouched, and returns status ERROR with error "Validation failed";
\* createPitch runs only for values the schema accepted, with those values.
C13_ValidationGate ==
    [][ /\ (pcForm' = "awaiting" \/ pcAction' # "idle") =>
               /\ SchemaAccepts(formData', editorPitch')
               /\ form' = formData'
               /\ pitch' = editorPitch'
        /\ (formState'.status # "INITIAL" /\ ~SchemaAccepts(formData', editorPitch')) =>
               /\ errors' = FieldErrors(formData', editorPitch')
               /\ errors' # NoErrors
               /\ formState'.status = "ERROR"
               /\ formState'.error = "Validation failed"
               /\ pcForm' = "idle"
               /\ pcAction' = "idle"
               /\ creates' = 0
               /\ documents' = documents
      ]_vars

\* a submission with an empty title and a link that is no URL was rejected
\* after an earlier submission had created a document
C13_Witness ==
    /\ pcForm = "idle"
    /\ formData.title = <<>>
    /\ DOMAIN errors = {"title", "link"}
    /\ formState.error = "Validation failed"
    /\ Len(documents) = 1
    /\ pcAction = "idle"

\* C15: the errors mapping changes only in a step that returns "Validation
\* failed"; while an accepted submission runs createPitch and when its
\* result (SUCCESS or ERROR) or an unexpected exception comes back, errors
\* stays as it was.
C15_ErrorsOnlyOnRejection ==
    [][ /\ errors' # errors =>
               /\ pcForm = "idle" /\ pcForm' = "idle"
               /\ formState'.error = "Validation failed"
               /\ toast' = ToastCheckInputs
               /\ UNCHANGED pitchVars
        /\ (pcForm = "awaiting" \/ pcForm' = "awaiting") => errors' = errors
      ]_vars

\* the messages of an earlier rejected submission are still set after a
\* later submission succeeded
C15_Witness ==
    /\ pcForm = "idle"
    /\ formState.status = "SUCCESS"
    /\ toast = ToastSuccess
    /\ errors # NoErrors

\* C11: whenever the handler has returned a result with status ERROR, the
\* submission that produced it has shown a toast.
C11_ErrorSurfaced ==
    (pcForm = "idle" /\ formState.status = "ERROR") => toast # NoToast

---------------------------------------------------------------------------
(* Properties of createPitch                                               *)

\* C1: a createPitch call made while auth() yields no session never invokes
\* writeClient.create and never gets past the session check, and what it
\* returns is exactly { error: "Not signed in", status: "ERROR" }, with the
\* store left as it was when the call began.
C1_NotSignedIn ==
    (pcAction # "idle" /\ session = NoSession) =>
        /\ pcAction \in {"auth", "returned"}
        /\ creates = 0
        /\ Len(documents) = docsAtCall
        /\ pcAction = "returned" =>
               result = [error |-> "Not signed in", status |-> "ERROR"]

\* a call without session has returned although its form and pitch were valid
C1_Witness ==
    /\ pcAction = "returned"
    /\ session = NoSession
    /\ SchemaAccepts(form, pitch)
    /\ result.status = "ERROR"

\* C2: a createPitch call with a session whose fields the schema rejects
\* issues no writeClient.create.
C2_NoWriteOnInvalid ==
    (pcAction # "idle" /\ session # NoSession /\ ~SchemaAccepts(form, pitch)) =>
        creates = 0

\* C3: createPitch never throws to its caller: every call that ends, ends
\* by returning a result whose status is SUCCESS or ERROR.
C3_NeverThrows ==
    /\ pcAction # "thrown"
    /\ pcAction = "returned" => result.status \in {"SUCCESS", "ERROR"}

\* C4: a call issues at most one writeClient.create; a call that returned
\* SUCCESS issued exactly one and added exactly one document to the store;
\* a call that returned ERROR left the store with no new document.
C4_OneCreatePerSuccess ==
    /\ creates <= 1
    /\ (pcAction = "returned" /\ result.status = "SUCCESS") =>
           creates = 1 /\ Len(documents) = docsAtCall + 1
    /\ (pcAction = "returned" /\ result.status = "ERROR") =>
           Len(documents) = docsAtCall
    /\ pcAction \in {"auth", "create", "thrown"} => Len(documents) = docsAtCall

\* a call returned ERROR from the catch block after its single create was rejected
C4_Witness ==
    /\ pcAction = "returned"
    /\ result.status = "ERROR"
    /\ creates = 1
    /\ session # NoSession

\* C9: the document handed to writeClient.create carries the submitted
\* title, description, category and pitch, the submitted link as image, the
\* session's id as author reference, and as slug.current the slug of the
\* submitted title: lowercase letters and single separators only, with no
\* separator at either end, and its letters are the title's letters in order.
SlugLetters(s) == SelectSeq(s, LAMBDA c : c # "-")
TitleLetters(t) ==
    LET kept == SelectSeq(t, LAMBDA c : c \in {"A", "a"})
    IN  [i \in 1..Len(kept) |-> "a"]
WellFormedSlug(s) ==
    /\ \A i \in 1..Len(s) : s[i] \in {"a", "-"}
    /\ s # <<>> => s[1] # "-" /\ s[Len(s)] # "-"
    /\ \A i \in 1..(Len(s) - 1) : ~(s[i] = "-" /\ s[i + 1] = "-")

C9_DocumentFields ==
    pcAction = "create" =>
        /\ pending._type = "startup"
        /\ pending.title = form.title
        /\ pending.description = form.description
        /\ pending.category = form.category
        /\ pending.image = form.link
        /\ pending.pitch = pitch
        /\ pending.author = [_type |-> "reference", _ref |-> session.id]
        /\ pending.slug.current = slugify(form.title)
        /\ WellFormedSlug(pending.slug.current)
        /\ SlugLetters(pending.slug.current) = TitleLetters(form.title)

\* a valid submission whose title has a removed character, a space and
\* capitals is in flight to the CMS with slug "a-a"
C9_Witness ==
    /\ pcAction = "create"
    /\ SchemaAccepts(form, pitch)
    /\ form.title = <<"A", " ", "A">>
    /\ pending.slug.current = <<"a", "-", "a">>
    /\ pending.author._ref = "u1"

---------------------------------------------------------------------------
(* Detail page (Page) and View widget                                      *)

Req == 1..NumReq

ExistingId == "s1"
MissingId == "s404"
Ids == {ExistingId, MissingId}

Null == [null |-> TRUE]
Pending == [pending |-> TRUE]

\* PLAYLIST_BY_SLUG_QUERY: no playlist document, a playlist without a select
\* field, an empty selection, a selection of one startup
PlaylistResults ==
    {Null, [title |-> "Editor Picks"], [select |-> <<>>], [select |-> <<ExistingId>>]}

\* STARTUP_BY_ID_QUERY
StartupById(id) == IF id = ExistingId THEN [_id |-> id] ELSE Null

\* ViewText without the singular branch
ViewTextAlwaysPlural(n) ==
    IF n < 1 THEN <<"No views">> ELSE <<n, "views">>

\* lines 38-47 of View: the rendered count text
ViewText(n) ==
    IF n < 1 THEN <<"No views">>
    ELSE <<n, IF n = 1 THEN "view" ELSE "views">>

NoText == <<>>

\* The stored count starts at any small value.  A startup whose views field
\* is absent reads as null, which View treats as it treats 0 (null < 1 is
\* true, null + 1 is 1), so 0 stands for that case too.
InitView ==
    /\ views \in 0..MaxInitial
    /\ initial = views
    /\ playlist \in PlaylistResults
    /\ pc = [r \in Req |-> "idle"]
    /\ routeId = [r \in Req |-> ExistingId]
    /\ postRead = [r \in Req |-> Pending]
    /\ picksRead = [r \in Req |-> Pending]
    /\ totalViews = [r \in Req |-> 0]
    /\ text = [r \in Req |-> NoText]
    /\ scheduled = [r \in Req |-> 0]
    /\ patch = [r \in Req |-> "none"]

\* Page, lines 41-52: both reads are issued; requests arrive in index order
PageStart(r, id) ==
    /\ pc[r] = "idle"
    /\ \A q \in Req : q < r => pc[q] # "idle"
    /\ pc' = [pc EXCEPT ![r] = "fetching"]
    /\ routeId' = [routeId EXCEPT ![r] = id]
    /\ UNCHANGED <<views, initial, playlist, postRead, picksRead, totalViews, text,
                   scheduled, patch>>

\* client.fetch(STARTUP_BY_ID_QUERY, { id }) resolves
PostReadResolves(r) ==
    /\ pc[r] = "fetching"
    /\ postRead[r] = Pending
    /\ postRead' = [postRead EXCEPT ![r] = StartupById(routeId[r])]
    /\ UNCHANGED <<views, initial, playlist, pc, routeId, picksRead, totalViews, text,
                   scheduled, patch>>

\* client.fetch(PLAYLIST_BY_SLUG_QUERY, { slug: "editor-picks" }) resolves
PicksReadResolves(r) ==
    /\ pc[r] = "fetching"
    /\ picksRead[r] = Pending
    /\ picksRead' = [picksRead EXCEPT ![r] = playlist]
    /\ UNCHANGED <<views, initial, playlist, pc, routeId, postRead, totalViews, text,
                   scheduled, patch>>

\* either read rejects: Promise.all rejects and Page throws
ReadRejects(r) ==
    /\ pc[r] = "fetching"
    /\ postRead[r] = Pending \/ picksRead[r] = Pending
    /\ pc' = [pc EXCEPT ![r] = "error"]
    /\ UNCHANGED <<views, initial, playlist, routeId, postRead, picksRead, totalViews,
                   text, scheduled, patch>>

\* what Page does once Promise.all has resolved, lines 49-58 and 128-130:
\* destructuring { select } of null throws; a null post is notFound();
\* otherwise the content is rendered and View is mounted
PageOutcome(post, picks) ==
    IF picks = Null THEN "error"
    ELSE IF post = Null THEN "notFound"
    ELSE "view"

\* PageJoin when rendering goes on as soon as the entity read is in
PageJoinEarly(r) ==
    /\ pc[r] = "fetching"
    /\ postRead[r] # Pending
    /\ pc' = [pc EXCEPT ![r] = PageOutcome(postRead[r], picksRead[r])]
    /\ UNCHANGED <<views, initial, playlist, routeId, postRead, picksRead, totalViews,
                   text, scheduled, patch>>

PageJoin(r) ==
    /\ pc[r] = "fetching"
    /\ postRead[r] # Pending
    /\ picksRead[r] # Pending
    /\ pc' = [pc EXCEPT ![r] = PageOutcome(postRead[r], picksRead[r])]
    /\ UNCHANGED <<views, initial, playlist, routeId, postRead, picksRead, totalViews,
                   text, scheduled, patch>>

\* PatchValue off by one
PatchValuePlusTwo(observed) == observed + 2

\* the value the deferred patch sets: totalViews + 1
PatchValue(observed) == observed + 1

\* View, lines 17-50: the uncached read resolves, after() registers the
\* patch, the count text is returned
ViewRenders(r) ==
    /\ pc[r] = "view"
    /\ totalViews' = [totalViews EXCEPT ![r] = views]
    /\ scheduled' = [scheduled EXCEPT ![r] = @ + 1]
    /\ text' = [text EXCEPT ![r] = ViewText(views)]
    /\ pc' = [pc EXCEPT ![r] = "rendered"]
    /\ UNCHANGED <<views, initial, playlist, routeId, postRead, picksRead, patch>>

\* the uncached read of the count rejects: View throws, nothing is scheduled
ViewReadRejects(r) ==
    /\ pc[r] = "view"
    /\ pc' = [pc EXCEPT ![r] = "viewError"]
    /\ UNCHANGED <<views, initial, playlist, routeId, postRead, picksRead, totalViews,
                   text, scheduled, patch>>

\* the response has been produced in full
ResponseFinished(r) ==
    /\ pc[r] = "rendered"
    /\ pc' = [pc EXCEPT ![r] = "responded"]
    /\ UNCHANGED <<views, initial, playlist, routeId, postRead, picksRead, totalViews,
                   text, scheduled, patch>>

\* AfterMayRun when the patch is not deferred past the response
AfterMayRunEarly(r) == pc[r] \in {"rendered", "responded"} /\ scheduled[r] > 0

\* after(): the callback runs once the response is finished
AfterMayRun(r) == pc[r] = "responded" /\ scheduled[r] > 0

\* writeClient.patch(id).set({ views: totalViews + 1 }).commit() succeeds
PatchCommits(r) ==
    /\ AfterMayRun(r)
    /\ views' = PatchValue(totalViews[r])
    /\ patch' = [patch EXCEPT ![r] = "committed"]
    /\ pc' = [pc EXCEPT ![r] = "done"]
    /\ UNCHANGED <<initial, playlist, routeId, postRead, picksRead, totalViews, text,
                   scheduled>>

\* PatchRejects when a rejected commit leaves the callback to run again
PatchRejectsRetry(r) ==
    /\ AfterMayRun(r)
    /\ patch[r] = "none"
    /\ patch' = [patch EXCEPT ![r] = "failed"]
    /\ UNCHANGED <<views, initial, playlist, pc, routeId, postRead, picksRead, totalViews,
                   text, scheduled>>

\* the commit rejects; the rejection is not handled anywhere
PatchRejects(r) ==
    /\ AfterMayRun(r)
    /\ patch' = [patch EXCEPT ![r] = "failed"]
    /\ pc' = [pc EXCEPT ![r] = "done"]
    /\ UNCHANGED <<views, initial, playlist, routeId, postRead, picksRead, totalViews,
                   text, scheduled>>

\* the process is torn down before the callback runs
PatchDropped(r) ==
    /\ AfterMayRun(r)
    /\ patch' = [patch EXCEPT ![r] = "dropped"]
    /\ pc' = [pc EXCEPT ![r] = "done"]
    /\ UNCHANGED <<views, initial, playlist, routeId, postRead, picksRead, totalViews,
                   text, scheduled>>

NextView ==
    UNCHANGED <<pitchVars, formVars>> /\
  (
    \/ \E r \in Req, id \in Ids : PageStart(r, id)
    \/ \E r \in Req : PostReadResolves(r)
    \/ \E r \in Req : PicksReadResolves(r)
    \/ \E r \in Req : ReadRejects(r)
    \/ \E r \in Req : PageJoin(r)
    \/ \E r \in Req : ViewRenders(r)
    \/ \E r \in Req : ViewReadRejects(r)
    \/ \E r \in Req : ResponseFinished(r)
    \/ \E r \in Req : PatchCommits(r)
    \/ \E r \in Req : PatchRejects(r)
    \/ \E r \in Req : PatchDropped(r)
  )

---------------------------------------------------------------------------
(* Properties of the detail page and the View widget                       *)

Mounted(r) == pc[r] \in {"rendered", "responded", "done"}

\* C5: no step lowers the stored views value.
C5_ViewsNeverDecrease == [][views' >= views]_vars

\* requests 1 and 2 are the only ones made, both viewed the existing
\* startup, and both are finished
TwoViewsFinished ==
    /\ \A r \in Req : r > 2 => pc[r] = "idle"
    /\ \A r \in {1, 2} : pc[r] = "done" /\ routeId[r] = ExistingId

Committed == {r \in Req : patch[r] = "committed"}

\* C6 as stated: after two views of the same startup have finished, each
\* has scheduled one write and the stored count is between initial + 1 and
\* initial + 2.
C6_TwoViewsOriginal ==
    TwoViewsFinished =>
        /\ scheduled[1] = 1 /\ scheduled[2] = 1
        /\ views >= initial + 1
        /\ views <= initial + 2

\* C6 amended: after two views of the same startup have finished, each has
\* scheduled exactly one write and the stored count is at most initial + 2;
\* it is at least initial + 1 when at least one of the two writes was
\* committed, and it is still initial when both were dropped or rejected.
C6_TwoViews ==
    TwoViewsFinished =>
        /\ scheduled[1] = 1 /\ scheduled[2] = 1
        /\ views <= initial + 2
        /\ Committed # {} => views >= initial + 1
        /\ Committed = {} => views = initial

\* both writes were committed and one update was lost
C6_Witness ==
    /\ TwoViewsFinished
    /\ Committed = {1, 2}
    /\ views = initial + 1

\* C7: within a request, the count is read from the store when View
\* renders, the text returned shows the count read, the patch runs only
\* once the response is finished, and a committed patch stores the count
\* that same request read plus one; nothing else changes the stored count.
C7_ReadRespondWrite ==
    [][ /\ \A r \in Req :
             /\ (~Mounted(r) /\ Mounted(r)') =>
                    /\ totalViews'[r] = views
                    /\ text'[r] = ViewText(views)
                    /\ patch'[r] = "none"
             /\ Mounted(r) => totalViews'[r] = totalViews[r] /\ text'[r] = text[r]
             /\ (patch[r] = "none" /\ patch'[r] # "none") =>
                    /\ pc[r] = "responded"
                    /\ patch'[r] = "committed" => views' = totalViews[r] + 1
                    /\ patch'[r] # "committed" => views' = views
        /\ views' # views => \E r \in Req : patch[r] = "none" /\ patch'[r] = "committed"
      ]_vars

\* a patch was committed after its response, storing the observed count
\* plus one, although another request had raised the count in between
C7_Witness ==
    \E r \in Req :
        /\ patch[r] = "committed"
        /\ pc[r] = "done"
        /\ views = totalViews[r] + 1
        /\ \E q \in Req \ {r} : patch[q] = "committed" /\ totalViews[q] = totalViews[r]

\* C8: a request whose entity read yielded nothing and whose editor-picks
\* read returned ends as not-found, with no View mounted, no count read and
\* no write scheduled.
C8_MissingIsNotFound ==
    \A r \in Req :
        (postRead[r] = Null /\ picksRead[r] # Pending /\ pc[r] # "fetching") =>
            /\ pc[r] = "notFound"
            /\ text[r] = NoText
            /\ scheduled[r] = 0
            /\ patch[r] = "none"

\* C10: the text View rendered is "No views" for an observed count of 0,
\* "1 view" for 1 and "N views" for every N >= 2.
C10_ViewText ==
    \A r \in Req :
        Mounted(r) =>
            /\ totalViews[r] = 0 => text[r] = <<"No views">>
            /\ totalViews[r] = 1 => text[r] = <<1, "view">>
            /\ totalViews[r] >= 2 => text[r] = <<totalViews[r], "views">>
            /\ totalViews[r] >= 0

\* three requests rendered "No views", "1 view" and "2 views"
C10_Witness ==
    /\ \E r \in Req : Mounted(r) /\ text[r] = <<"No views">>
    /\ \E r \in Req : Mounted(r) /\ text[r] = <<1, "view">>
    /\ \E r \in Req : Mounted(r) /\ text[r] = <<2, "views">>

\* C12: whatever becomes of a request's deferred patch (committed, rejected
\* or dropped), the text that request rendered stays what it was, the
\* request ends as done with no error outcome, and once the patch has had
\* its one attempt nothing of the request changes again.
C12_PatchFailureUnobserved ==
    [][ \A r \in Req :
          /\ (patch[r] = "none" /\ patch'[r] # "none") =>
                 /\ text[r] = ViewText(totalViews[r])
                 /\ text'[r] = text[r]
                 /\ pc'[r] = "done"
          /\ patch[r] # "none" =>
                 /\ patch'[r] = patch[r]
                 /\ text'[r] = text[r]
                 /\ pc'[r] = pc[r]
          /\ scheduled'[r] <= 1
      ]_vars

\* one request's commit was rejected, another's was dropped and a third's
\* was committed; all three had read the same count and show the same text
C12_Witness ==
    \E a, b, c \in Req :
        /\ patch[a] = "failed" /\ patch[b] = "dropped" /\ patch[c] = "committed"
        /\ pc[a] = "done" /\ pc[b] = "done" /\ pc[c] = "done"
        /\ totalViews[a] = totalViews[c] /\ totalViews[b] = totalViews[c]
        /\ text[a] = text[c] /\ text[b] = text[c] /\ text[c] # NoText

\* a request is past the join of the two reads
Joined(r) == pc[r] \in {"notFound", "view", "viewError", "rendered", "responded", "done"}

\* C14: a request gets past the join only with both reads resolved; a
\* request that leaves the fetching stage while a read is still out (a read
\* was rejected) ends in the error outcome; and in the error outcome nothing
\* is rendered and no patch is scheduled.
C14_JoinBothReads ==
    [][ \A r \in Req :
          /\ Joined(r)' => postRead'[r] # Pending /\ picksRead'[r] # Pending
          /\ (pc[r] = "fetching" /\ pc'[r] # "fetching"
                 /\ (postRead[r] = Pending \/ picksRead[r] = Pending)) => pc'[r] = "error"
          /\ pc'[r] = "error" =>
                 /\ text'[r] = NoText
                 /\ scheduled'[r] = 0
                 /\ patch'[r] = "none"
          /\ pc[r] = "error" => pc'[r] = "error"
      ]_vars

\* one request is past the join and rendering, while a second has only its
\* playlist read in and a third only its entity read: both completion
\* orders are under way and neither of the two has started to render
C14_Witness ==
    \E a, b, c \in Req :
        /\ pc[a] = "view"
        /\ pc[b] = "fetching" /\ postRead[b] = Pending /\ picksRead[b] # Pending
        /\ pc[c] = "fetching" /\ postRead[c] # Pending /\ picksRead[c] = Pending

---------------------------------------------------------------------------
(* Specifications *)

ViewIdle ==
    /\ views = 0
    /\ initial = 0
    /\ playlist = Null
    /\ pc = [r \in Req |-> "idle"]
    /\ routeId = [r \in Req |-> ExistingId]
    /\ postRead = [r \in Req |-> Pending]
    /\ picksRead = [r \in Req |-> Pending]
    /\ totalViews = [r \in Req |-> 0]
    /\ text = [r \in Req |-> NoText]
    /\ scheduled = [r \in Req |-> 0]
    /\ patch = [r \in Req |-> "none"]

\* createPitch calls, with no detail-page request running
InitPitchOnly == InitPitch /\ ViewIdle /\ InitForm
SpecPitch == InitPitchOnly /\ [][NextPitch]_vars

\* detail-page requests, with no createPitch call running
InitViewOnly == InitView /\ InitPitch /\ InitForm

\* submissions of the form, each running createPitch, with no detail-page
\* request running
InitFormOnly == InitForm /\ InitPitch /\ ViewIdle
SpecForm == InitFormOnly /\ [][NextForm]_vars
SpecView == InitViewOnly /\ [][NextView]_vars

====
